---------------------------- MODULE Spec2Model ----------------------------
(***************************************************************************)
(* State-machine model of the osmpdrum front end.                          *)
(*                                                                         *)
(* Two generations of the application component live in the repository:   *)
(*   - the IPC application (src/unnamed/part_002, lines 313-780) which     *)
(*     drives the native engine through AudioEngine (lines 782-816);       *)
(*   - the Web Audio application (src/App.tsx) which plays samples with    *)
(*     AudioBufferSourceNodes inside the web view.                         *)
(* Both are modelled over one set of variables.  Each specification below  *)
(* is a slice: the handlers that write the variables its claims read.      *)
(*                                                                         *)
(* Conventions                                                             *)
(*   - a JavaScript string is a sequence of one-character strings; the     *)
(*     empty sequence stands for both undefined and '' (both are falsy)    *)
(*   - trim points and mouse positions are in hundredths (0.01 = 1)        *)
(*   - an audio buffer is named by the index of its file, 0 = undefined    *)
(*   - progress is in hundredths, time in ticks                            *)
(***************************************************************************)
EXTENDS Integers, Sequences, FiniteSets, TLC

(***************************************************************************)
(* Program constants and bounds                                            *)
(***************************************************************************)
NumPads == 32

LabelLen == 8

WebLabelLen == 10

TrimScale == 100

ProgressScale == 100

\* knob values are kept in halves: the knob's sensitivity is 0.5 per pixel
KnobScale == 2

KnobMin == 0

KnobMax == 100

MaxTime == 3

MaxSources == 2

MaxInFlight == 2

Pads == 0 .. (NumPads - 1)

\* the pads the inputs name
PadInputs == {0, 1}

Min(a, b) == IF a < b THEN a ELSE b

Max(a, b) == IF a > b THEN a ELSE b

(***************************************************************************)
(* Strings                                                                 *)
(***************************************************************************)
LowerChars == <<"a","b","c","d","e","f","g","h","i","j","k","l","m",
                "n","o","p","q","r","s","t","u","v","w","x","y","z">>

UpperChars == <<"A","B","C","D","E","F","G","H","I","J","K","L","M",
                "N","O","P","Q","R","S","T","U","V","W","X","Y","Z">>

toUpperChar(c) ==
  IF \E i \in 1..26 : LowerChars[i] = c
  THEN UpperChars[CHOOSE i \in 1..26 : LowerChars[i] = c]
  ELSE c

toLowerChar(c) ==
  IF \E i \in 1..26 : UpperChars[i] = c
  THEN LowerChars[CHOOSE i \in 1..26 : UpperChars[i] = c]
  ELSE c

toUpperCase(s) == [i \in 1..Len(s) |-> toUpperChar(s[i])]

toLowerCase(s) == [i \in 1..Len(s) |-> toLowerChar(s[i])]

\* String.prototype.substring(0, n)
substring(s, n) == SubSeq(s, 1, Min(n, Len(s)))

endsWith(s, suffix) ==
  /\ Len(suffix) <= Len(s)
  /\ SubSeq(s, Len(s) - Len(suffix) + 1, Len(s)) = suffix

\* path.split(/[\\/]/).pop() : the text after the last separator
lastSegment(path) ==
  LET seps == {i \in 1..Len(path) : path[i] \in {"/", "\\"}}
      from == IF seps = {} THEN 1
              ELSE (CHOOSE i \in seps : \A j \in seps : j <= i) + 1
  IN  SubSeq(path, from, Len(path))

AudioExtensions == { <<".","w","a","v">>, <<".","m","p","3">>,
                     <<".","f","l","a","c">>, <<".","o","g","g">> }

\* name.replace(/\.(wav|mp3|flac|ogg)$/i, '')
stripAudioExtension(name) ==
  IF \E e \in AudioExtensions : endsWith(toLowerCase(name), e)
  THEN LET e == CHOOSE x \in AudioExtensions : endsWith(toLowerCase(name), x)
       IN  SubSeq(name, 1, Len(name) - Len(e))
  ELSE name

\* fileName.replace(/\.[^/.]+$/, '') : drop the last dot and what follows it,
\* when what follows is non-empty and holds no '/' and no '.'
stripAnyExtension(name) ==
  LET dots == {i \in 1..Len(name) : name[i] = "."}
      last == CHOOSE i \in dots : \A j \in dots : j <= i
  IN  IF dots = {} THEN name
      ELSE IF last = Len(name) THEN name
      ELSE IF \E k \in (last + 1)..Len(name) : name[k] = "/" THEN name
      ELSE SubSeq(name, 1, last - 1)

SAMPLE == <<"S","A","M","P","L","E">>

\* the label handleDrop derives from a dropped path
dropLabel(path) ==
  LET name      == IF lastSegment(path) = <<>> THEN SAMPLE ELSE lastSegment(path)
      cleanName == stripAudioExtension(name)
  IN  toUpperCase(substring(cleanName, LabelLen))

\* the label handleFileLoadToPad derives from a file name
bufferLabel(fileName) ==
  toUpperCase(substring(stripAudioExtension(fileName), LabelLen))

\* the label of the Web Audio application
webLabel(fileName) ==
  substring(toUpperCase(stripAnyExtension(fileName)), WebLabelLen)

(***************************************************************************)
(* The files of the environment: what the user can drop.  File 3 is        *)
(* corrupt: its decode fails.  Durations are in ticks.                     *)
(***************************************************************************)
FilePath(f) ==
  CASE f = 1 -> <<"/","s","/","k","i","c","k",".","w","a","v">>
    [] f = 2 -> <<"C",":","\\","S","n","a","r","e","D","r","u","m","9",".","O","G","G">>
    [] f = 3 -> <<"b","a","d",".","w","a","v">>
    [] f = 4 -> <<"t","i","c",".","w","a","v">>

FileName(f) == lastSegment(FilePath(f))

FileDecodes(f) == f \in {1, 2, 4}

FileDuration(f) == IF f = 1 THEN 2 ELSE 1

FilePeaks(f) == IF f = 1 THEN <<3, 1>> ELSE <<2, 2, 5>>

Files == {1, 2, 3}

FileAt(path) == CHOOSE f \in Files : FilePath(f) = path

(***************************************************************************)
(* State                                                                   *)
(***************************************************************************)
VARIABLES
  pads,              \* useState<PadData[]>
  selectedPadId,     \* useState<number>
  hasUnsavedChanges, \* useState(false)
  draggingMarker,    \* WaveformDisplay: useState<'start' | 'end' | null>
  markersDrawn,      \* WaveformDisplay: the svg holds the two trim markers
  loads,             \* Load requests the engine has accepted and not answered
  ipcOut,            \* the messages the last handler posted to window.ipc
  isPlaying,         \* useState(false)
  playProgress,      \* useState(0), in hundredths
  animationFrameRef, \* useRef<number>(0): 0, or 1 for the id of a requested frame
  playStartTimeRef,  \* useRef<number>(0)
  raf,               \* the animate callback the browser holds for the next frame
  now,               \* performance.now() / AudioContext.currentTime, in ticks
  envelope,          \* useState({attack, decay, sustain})
  knob,              \* Knob: the knob being dragged and its startValue
  voices,            \* engine: the live voices
  engineEnvelope,    \* engine: EnvelopeSettings
  sources,           \* Web Audio: the AudioBufferSourceNodes created
  currentSourceRef,  \* useRef<AudioBufferSourceNode | null>: 0 is null
  dimensions,        \* WaveformDisplay of App.tsx: useState({width: 800, ...}).width
  masterVolume,      \* useState(100), in halves of a percent
  showExitDialog,    \* useState(false)
  uncaught           \* a handler has ended in an uncaught exception

regVars == <<pads, selectedPadId, hasUnsavedChanges, draggingMarker, markersDrawn,
             loads>>

playVars == <<isPlaying, playProgress, animationFrameRef, playStartTimeRef, raf>>

envVars == <<envelope, knob>>

engineVars == <<voices, engineEnvelope>>

webVars == <<sources, currentSourceRef, dimensions>>

shellVars == <<masterVolume, showExitDialog, uncaught>>

vars == <<pads, selectedPadId, hasUnsavedChanges, draggingMarker, markersDrawn,
          loads, ipcOut, isPlaying, playProgress, animationFrameRef,
          playStartTimeRef, raf, now, envelope, knob, voices, engineEnvelope,
          sources, currentSourceRef, dimensions, masterVolume, showExitDialog,
          uncaught>>

InitialPad(i) ==
  [ id            |-> i,
    label         |-> <<>>,
    isMuted       |-> FALSE,
    isSolo        |-> FALSE,
    isActive      |-> (i = 0),
    filePath      |-> <<>>,
    waveformPeaks |-> <<>>,
    duration      |-> 0,
    startPoint    |-> 0,
    endPoint      |-> TrimScale,
    audioBuffer   |-> 0,
    fileName      |-> <<>> ]

NoFrame == [pending |-> FALSE, duration |-> 0]

NoKnob == [name |-> "none", startValue |-> 0]

InitialMasterVolume == 100 * KnobScale

\* useState({ width: 800, height: 96 }) of the Web Audio WaveformDisplay
InitialWidth == 800

InitialEnvelope ==
  [attack |-> 30 * KnobScale, decay |-> 50 * KnobScale, sustain |-> 80 * KnobScale]

SourceIds == 1..MaxSources

NoSource == [state |-> "free", pad |-> 0, start |-> 0, duration |-> 0,
             envelope |-> InitialEnvelope]

\* the start-up values of everything but the pads, the selection, what the
\* waveform display has drawn, and the envelope
InitQuiet ==
  /\ hasUnsavedChanges = FALSE
  /\ draggingMarker = "null"
  /\ loads = <<>>
  /\ ipcOut = <<>>
  /\ isPlaying = FALSE
  /\ playProgress = 0
  /\ animationFrameRef = 0
  /\ playStartTimeRef = 0
  /\ raf = NoFrame
  /\ masterVolume = InitialMasterVolume
  /\ showExitDialog = FALSE
  /\ uncaught = FALSE
  /\ now = 0
  /\ knob = NoKnob
  /\ voices = {}
  /\ engineEnvelope = InitialEnvelope
  /\ sources = [s \in SourceIds |-> NoSource]
  /\ currentSourceRef = 0
  /\ dimensions = InitialWidth

\* what the two applications share at start-up, but for the envelope
InitRest ==
  /\ selectedPadId = 0
  /\ markersDrawn = FALSE
  /\ InitQuiet

\* what the two applications share at start-up
InitCommon ==
  /\ InitRest
  /\ envelope = InitialEnvelope

\* the IPC application
Init ==
  /\ pads = [i \in Pads |-> InitialPad(i)]
  /\ InitCommon

(***************************************************************************)
(* AudioEngine: the IPC boundary                                           *)
(***************************************************************************)
\* window.ipc is provided by the native host the application is packaged in
ipcAvailable == TRUE

\* AudioEngine.send: the messages one call posts to window.ipc
send(command, payload) ==
  IF ipcAvailable THEN <<[command |-> command, payload |-> payload]>> ELSE <<>>

\* AudioEngine.load
load(padId, filePath) ==
  send("Load", [pad_id |-> padId, file_path |-> filePath])

RemoveAt(s, i) == SubSeq(s, 1, i - 1) \o SubSeq(s, i + 1, Len(s))

(***************************************************************************)
(* WaveformDisplay: what a render leaves in the svg.  The drawing effect   *)
(* returns early without clearing the svg when the selected pad has no     *)
(* peaks, so markers drawn once stay.                                      *)
(***************************************************************************)
Render ==
  markersDrawn' = (markersDrawn \/ pads'[selectedPadId'].waveformPeaks # <<>>)

(***************************************************************************)
(* Pad registry handlers of the IPC application                            *)
(***************************************************************************)
\* mutant: the pad that was active stays active
handlePadSelect_keepsActive(id) ==
  /\ selectedPadId' = id
  /\ pads' = [i \in Pads |->
               [pads[i] EXCEPT !.isActive = (pads[i].isActive \/ pads[i].id = id)]]
  /\ UNCHANGED <<hasUnsavedChanges, draggingMarker, loads>>
  /\ Render

handlePadSelect(id) ==
  /\ selectedPadId' = id
  /\ pads' = [i \in Pads |-> [pads[i] EXCEPT !.isActive = (pads[i].id = id)]]
  /\ UNCHANGED <<hasUnsavedChanges, draggingMarker, loads>>
  /\ Render

\* mutant: mute and solo made exclusive
toggled_exclusive(p, type) ==
  [p EXCEPT !.isMuted = IF type = "mute" THEN ~p.isMuted ELSE FALSE,
            !.isSolo  = IF type = "solo" THEN ~p.isSolo ELSE FALSE]

\* the toggled pad
toggled(p, type) ==
  [p EXCEPT !.isMuted = IF type = "mute" THEN ~p.isMuted ELSE p.isMuted,
            !.isSolo  = IF type = "solo" THEN ~p.isSolo ELSE p.isSolo]

handlePadToggle(id, type) ==
  /\ pads' = [i \in Pads |-> IF pads[i].id # id THEN pads[i]
                             ELSE toggled(pads[i], type)]
  /\ hasUnsavedChanges' = TRUE
  /\ UNCHANGED <<selectedPadId, draggingMarker, loads>>
  /\ Render

\* the pad a file drop from the host leaves: path and label only
dropped(p, path) ==
  [p EXCEPT !.filePath = path, !.label = dropLabel(path)]

\* what the claims call the pad's sample state
sampleState(p) ==
  [ filePath      |-> p.filePath,
    audioBuffer   |-> p.audioBuffer,
    label         |-> p.label,
    waveformPeaks |-> p.waveformPeaks,
    duration      |-> p.duration ]

\* a Load the engine does not reject as an InvalidCommand
validLoad(msg) == msg.command = "Load" /\ msg.payload.pad_id \in Pads

\* the engine's record of the Loads it accepted: the payloads
accepted(msgs) ==
  LET valid == SelectSeq(msgs, validLoad) IN
  [k \in 1..Len(valid) |-> [pad_id    |-> valid[k].payload.pad_id,
                            file_path |-> valid[k].payload.file_path]]

\* 'rust-file-drop' listener
handleDrop(path) ==
  /\ Len(loads) < MaxInFlight
  /\ IF path = <<>>
     THEN UNCHANGED <<pads, loads>> /\ ipcOut' = <<>>
     ELSE /\ pads' = [i \in Pads |-> IF pads[i].id = selectedPadId
                                     THEN dropped(pads[i], path)
                                     ELSE pads[i]]
          /\ ipcOut' = load(selectedPadId, path)
          /\ loads' = loads \o accepted(ipcOut')
  /\ UNCHANGED <<selectedPadId, hasUnsavedChanges, draggingMarker>>
  /\ Render

\* the pad a WaveformReady event leaves
waveformApplied(p, data) ==
  [p EXCEPT !.waveformPeaks = data.peaks, !.duration = data.duration]

\* 'rust-waveform-ready' listener
handleWaveformReady(data) ==
  /\ pads' = [i \in Pads |-> IF pads[i].id = data.pad_id
                             THEN waveformApplied(pads[i], data)
                             ELSE pads[i]]
  /\ UNCHANGED <<selectedPadId, hasUnsavedChanges, draggingMarker>>
  /\ Render

(***************************************************************************)
(* The engine's side of Load.  Decoding runs in background threads, so     *)
(* the accepted requests are answered in any order: a decodable file with  *)
(* a WaveformReady event, any other with a failure that no listener of     *)
(* the front end receives.                                                 *)
(***************************************************************************)
WaveformReady(k) ==
  /\ k \in 1..Len(loads)
  /\ FileDecodes(FileAt(loads[k].file_path))
  /\ loads' = RemoveAt(loads, k)
  /\ handleWaveformReady([pad_id   |-> loads[k].pad_id,
                          peaks    |-> FilePeaks(FileAt(loads[k].file_path)),
                          duration |-> FileDuration(FileAt(loads[k].file_path))])

LoadFailed(k) ==
  /\ k \in 1..Len(loads)
  /\ ~FileDecodes(FileAt(loads[k].file_path))
  /\ loads' = RemoveAt(loads, k)
  /\ UNCHANGED <<pads, selectedPadId, hasUnsavedChanges, draggingMarker,
                 markersDrawn>>

(***************************************************************************)
(* Browser drop on a pad: decode in the web view, then load the buffer     *)
(***************************************************************************)
\* the decoded first channel of a file: its frame count and its frames, in
\* units of 1 / AmpScale.  File 1 is not a whole number of blocks long, file
\* 4 (a click) is shorter than the number of blocks.
AmpScale == 1000

FileFrameCount(f) ==
  CASE f = 1 -> 450
    [] f = 2 -> 1000
    [] f = 4 -> 150
    [] OTHER -> 0

getChannelData(f) ==
  [n \in 1..FileFrameCount(f) |-> (((n * 37 + f * 11) % 21) - 10) * (AmpScale \div 10)]

Abs(x) == IF x < 0 THEN 0 - x ELSE x

\* Number results: a quotient num / den, or NaN (0 / 0)
NaN == [nan |-> TRUE, num |-> 0, den |-> 1]

Quotient(num, den) ==
  IF den = 0 /\ num = 0 THEN NaN ELSE [nan |-> FALSE, num |-> num, den |-> den]

\* the inner loop: the sum of |rawData[blockStart + j]| for j < blockSize
\* (blockStart is 0-based)
RECURSIVE blockSum(_, _, _)
blockSum(rawData, blockStart, blockSize) ==
  IF blockSize = 0 THEN 0
  ELSE Abs(rawData[blockStart + blockSize])
         + blockSum(rawData, blockStart, blockSize - 1)

\* the partition into blocks of ceil(length / samples) frames, a last block
\* that runs past the sample being cut at its end: every frame is in one block
downsample_ceil(rawData, samples) ==
  LET blockSize == (Len(rawData) + samples - 1) \div samples IN
  [i \in 1..samples |->
     LET blockStart == Min(blockSize * (i - 1), Len(rawData))
         size       == Min(blockSize, Len(rawData) - blockStart)
     IN  Quotient(blockSum(rawData, blockStart, size), Max(size, 1))]

\* the downsampling loop: samples blocks of Math.floor(length / samples)
\* frames, each giving sum / blockSize
downsample(rawData, samples) ==
  LET blockSize == Len(rawData) \div samples IN
  [i \in 1..samples |->
     Quotient(blockSum(rawData, blockSize * (i - 1), blockSize), blockSize)]

\* the largest numerator of a non-empty sequence of quotients
maxNum(peaks) ==
  LET nums == {peaks[k].num : k \in 1..Len(peaks)} IN
  CHOOSE m \in nums : \A n \in nums : n <= m

\* Math.max(...peaks, 0.001) and peaks.map(p => p / max); the peaks share
\* their denominator, the block size
normalize(peaks) ==
  IF peaks = <<>> THEN peaks
  ELSE IF \E k \in 1..Len(peaks) : peaks[k].nan
  THEN [k \in 1..Len(peaks) |-> NaN]
  ELSE LET den   == peaks[1].den
           floor == (AmpScale \div 1000) * den
           max   == Max(maxNum(peaks), floor)
       IN  [k \in 1..Len(peaks) |-> Quotient(peaks[k].num, max)]

\* const samples = 200 in handleFileLoadToPad
PeakSamples == 200

\* the peaks handleFileLoadToPad computes from the buffer (normalised)
BufferPeaks(f) == normalize(downsample(getChannelData(f), PeakSamples))

\* mutant: the loaded pad is built afresh instead of from ...p
bufferLoaded_fresh(p, f, fileName) ==
  [InitialPad(0) EXCEPT !.label         = bufferLabel(fileName),
                        !.waveformPeaks = BufferPeaks(f),
                        !.duration      = FileDuration(f),
                        !.audioBuffer   = f]

\* the pad a buffer load leaves
bufferLoaded(p, f, fileName) ==
  [p EXCEPT !.label         = bufferLabel(fileName),
            !.waveformPeaks = BufferPeaks(f),
            !.duration      = FileDuration(f),
            !.startPoint    = 0,
            !.endPoint      = TrimScale,
            !.audioBuffer   = f]

handleFileLoadToPad(padId, f, fileName) ==
  /\ pads' = [i \in Pads |->
               [ (IF pads[i].id = padId THEN bufferLoaded(pads[i], f, fileName)
                                        ELSE pads[i])
                 EXCEPT !.isActive = (pads[i].id = padId) ]]
  /\ selectedPadId' = padId
  /\ hasUnsavedChanges' = TRUE
  /\ UNCHANGED <<draggingMarker, loads>>
  /\ Render

\* File.type: the web view derives it from the extension, whatever its case
hasAudioType(f) ==
  \E e \in AudioExtensions : endsWith(toLowerCase(FileName(f)), e)

\* the file filter of the pad grid's drop handler
isAudioFile(f) ==
  \/ hasAudioType(f)
  \/ \E e \in { <<".","w","a","v">>, <<".","m","p","3">>, <<".","o","g","g">> } :
       endsWith(FileName(f), e)

\* PadGrid.handleDrop: the decode throws for a corrupt file and nothing is loaded
PadGrid_handleDrop(padId, f) ==
  IF isAudioFile(f) /\ FileDecodes(f)
  THEN handleFileLoadToPad(padId, f, FileName(f))
  ELSE UNCHANGED <<pads, selectedPadId, hasUnsavedChanges, draggingMarker,
                      markersDrawn, loads>>

(***************************************************************************)
(* Trim markers                                                            *)
(***************************************************************************)
handleStartPointChange(value) ==
  /\ pads' = [i \in Pads |-> IF pads[i].id = selectedPadId
                             THEN [pads[i] EXCEPT !.startPoint = value]
                             ELSE pads[i]]
  /\ hasUnsavedChanges' = TRUE

handleEndPointChange(value) ==
  /\ pads' = [i \in Pads |-> IF pads[i].id = selectedPadId
                             THEN [pads[i] EXCEPT !.endPoint = value]
                             ELSE pads[i]]
  /\ hasUnsavedChanges' = TRUE

\* the props the application passes: startPoint || 0 and endPoint || 1
startPointProp == pads[selectedPadId].startPoint

endPointProp ==
  IF pads[selectedPadId].endPoint = 0 THEN TrimScale
  ELSE pads[selectedPadId].endPoint

\* Math.max(0, Math.min(1, x / (rect.width - 32)))
normalizedX(x) == Max(0, Min(TrimScale, x))

\* mutant: the start marker may reach the end marker
startRequest_noGap(x) == Min(normalizedX(x), endPointProp)

\* the value a start-marker drag to x asks for
startRequest(x) == Min(normalizedX(x), endPointProp - 1)

\* mutant: the end marker may reach the start marker
endRequest_noGap(x) == Max(normalizedX(x), startPointProp)

\* the value an end-marker drag to x asks for
endRequest(x) == Max(normalizedX(x), startPointProp + 1)

handleMarkerMouseDown(marker) ==
  /\ markersDrawn
  /\ draggingMarker' = marker
  /\ UNCHANGED <<pads, selectedPadId, hasUnsavedChanges, markersDrawn, loads>>

\* WaveformDisplay.handleMouseMove; x is the pointer position in hundredths of
\* the drawing width, before clamping
handleMouseMove(x) ==
  /\ draggingMarker # "null"
  /\ IF draggingMarker = "start"
     THEN handleStartPointChange(startRequest(x))
     ELSE handleEndPointChange(endRequest(x))
  /\ UNCHANGED <<selectedPadId, draggingMarker, loads>>
  /\ Render

handleMouseUp ==
  /\ draggingMarker # "null"
  /\ draggingMarker' = "null"
  /\ UNCHANGED <<pads, selectedPadId, hasUnsavedChanges, markersDrawn, loads>>

\* pointer positions tried
MouseXs == {-7, 50, 130}


(***************************************************************************)
(* Playback of the IPC application                                         *)
(***************************************************************************)
\* AudioEngine.play
play(padId, filePath, volume, pan) ==
  send("Play", [pad_id |-> padId, file_path |-> filePath,
                volume |-> volume, pan |-> pan])

\* Math.min(elapsed / duration, 1), in hundredths
progressAt(elapsed, duration) ==
  Min((elapsed * ProgressScale) \div duration, ProgressScale)

\* mutant: the loop asks for another frame at the end as well
animate_neverStops(duration, playing) ==
  /\ playProgress' = progressAt(now - playStartTimeRef', duration)
  /\ isPlaying' = playing
  /\ animationFrameRef' = 1
  /\ raf' = [pending |-> TRUE, duration |-> duration]

\* the animate closure of playPad: called once by playPad and then once per
\* animation frame; playing is isPlaying as the caller leaves it
animate(duration, playing) ==
  LET progress == progressAt(now - playStartTimeRef', duration) IN
  IF progress < ProgressScale
  THEN /\ playProgress' = progress
       /\ isPlaying' = playing
       /\ animationFrameRef' = 1
       /\ raf' = [pending |-> TRUE, duration |-> duration]
  ELSE /\ isPlaying' = FALSE
       /\ playProgress' = 0
       /\ raf' = NoFrame
       /\ UNCHANGED animationFrameRef

\* pad.duration || 1.0
playDuration(p) == IF p.duration = 0 THEN 1 ELSE p.duration

\* the early return of playPad
playRefused(p) == p.filePath = <<>> \/ p.isMuted

playPad(padId) ==
  LET pad == pads[padId] IN
  IF playRefused(pad)
  THEN /\ ipcOut' = <<>>
       /\ UNCHANGED playVars
  ELSE /\ ipcOut' = play(padId, pad.filePath, 1, 0)
       /\ playStartTimeRef' = now
       /\ animate(playDuration(pad), TRUE)

\* the callback requestAnimationFrame holds, run by the browser
animationFrame ==
  /\ raf.pending
  /\ UNCHANGED playStartTimeRef
  /\ animate(raf.duration, isPlaying)

\* the key map of the keydown listener, after e.key.toLowerCase()
\* mutant: the keys carry pad numbers, not pad ids
keyMap_padNumbers ==
  [ q |-> 1, w |-> 2, e |-> 3, r |-> 4, t |-> 5, y |-> 6, u |-> 7, i |-> 8,
    a |-> 9, s |-> 10, d |-> 11, f |-> 12, g |-> 13, h |-> 14, j |-> 15, k |-> 16,
    z |-> 17, x |-> 18, c |-> 19, v |-> 20, b |-> 21, n |-> 22, m |-> 23 ]
    @@ ("," :> 24)

keyMap ==
  [ q |-> 0, w |-> 1, e |-> 2, r |-> 3, t |-> 4, y |-> 5, u |-> 6, i |-> 7,
    a |-> 8, s |-> 9, d |-> 10, f |-> 11, g |-> 12, h |-> 13, j |-> 14, k |-> 15,
    z |-> 16, x |-> 17, c |-> 18, v |-> 19, b |-> 20, n |-> 21, m |-> 22 ]
    @@ ("," :> 23)

handleKeyPress(key) ==
  LET lower == toLowerChar(key) IN
  IF lower \in DOMAIN keyMap
  THEN playPad(keyMap[lower])
  ELSE ipcOut' = <<>> /\ UNCHANGED playVars

\* PadGrid.handlePadClick: onSelect(id), then onPlay(id)
handlePadClick(id) ==
  /\ handlePadSelect(id)
  /\ playPad(id)

\* keys tried: two mapped ones, one of them with shift held, and an unmapped one
Keys == {"q", "W", "1"}

(***************************************************************************)
(* Envelope knobs                                                          *)
(***************************************************************************)
KnobNames == {"attack", "decay", "sustain"}

\* Knob.handleMouseDown; the pointer has one button, so one knob is held at a time
Knob_handleMouseDown(name) ==
  /\ knob.name = "none"
  /\ knob' = [name |-> name, startValue |-> envelope[name]]
  /\ UNCHANGED envelope

\* the value a drag of delta pixels asks for: startValue + delta * 0.5, clamped
knobValue(startValue, delta) ==
  Max(KnobMin * KnobScale, Min(KnobMax * KnobScale, startValue + delta))

\* Knob.handleMouseMove with onChange = setEnvelope(e => ({...e, [name]: v}))
Knob_handleMouseMove(delta) ==
  /\ knob.name \in KnobNames
  /\ envelope' = [envelope EXCEPT ![knob.name] = knobValue(knob.startValue, delta)]
  /\ UNCHANGED knob

Knob_handleMouseUp ==
  /\ knob.name # "none"
  /\ knob' = NoKnob
  /\ UNCHANGED envelope

\* pointer travels tried, in pixels
KnobDeltas == {-300, 100, 300}

(***************************************************************************)
(* The engine's side of Play and SetEnvelope.  A Play stops the voice of   *)
(* that pad, if any, and creates a new one that captures the engine's      *)
(* EnvelopeSettings by value; SetEnvelope is the one command that changes  *)
(* the EnvelopeSettings.                                                   *)
(***************************************************************************)
RECURSIVE settingsAfter(_, _)
settingsAfter(settings, msgs) ==
  IF msgs = <<>> THEN settings
  ELSE settingsAfter(IF Head(msgs).command = "SetEnvelope"
                     THEN Head(msgs).payload ELSE settings,
                     Tail(msgs))

\* InvalidCommand: a pad command whose pad id is not one of the bank
invalidCommand(msg) ==
  /\ msg.command \in {"Play", "Stop", "Load"}
  /\ msg.payload.pad_id \notin Pads

newVoice(padId, settings) == [padId |-> padId, envelope |-> settings]

RECURSIVE voicesAfter(_, _, _)
voicesAfter(vs, settings, msgs) ==
  IF msgs = <<>> THEN vs
  ELSE voicesAfter(IF invalidCommand(Head(msgs)) THEN vs
                   ELSE IF Head(msgs).command = "Play"
                   THEN {v \in vs : v.padId # Head(msgs).payload.pad_id}
                          \cup {newVoice(Head(msgs).payload.pad_id, settings)}
                   ELSE IF Head(msgs).command = "Stop"
                   THEN {v \in vs : v.padId # Head(msgs).payload.pad_id}
                   ELSE IF Head(msgs).command = "ConfirmExit"
                   THEN {}
                   ELSE vs,
                   settings, Tail(msgs))

\* the engine takes the messages the handler posted
engineReceives ==
  /\ engineEnvelope' = settingsAfter(engineEnvelope, ipcOut')
  /\ voices' = voicesAfter(voices, engineEnvelope', ipcOut')

\* a voice's cursor reaches the end
voiceFinished(padId) ==
  /\ \E v \in voices : v.padId = padId
  /\ voices' = {v \in voices : v.padId # padId}
  /\ UNCHANGED engineEnvelope

(***************************************************************************)
(* Steps of the IPC application: one handler run, with what it leaves alone *)
(***************************************************************************)
\* a handler that posts nothing and plays nothing
Idle == ipcOut' = <<>> /\ UNCHANGED <<playVars, engineVars>>

PadClick(id) ==
  /\ handlePadClick(id)
  /\ engineReceives
  /\ UNCHANGED <<now, envVars, webVars, shellVars>>

KeyPress(key) ==
  /\ handleKeyPress(key)
  /\ engineReceives
  /\ UNCHANGED <<regVars, now, envVars, webVars, shellVars>>

PadToggle(id, type) ==
  /\ handlePadToggle(id, type)
  /\ Idle
  /\ UNCHANGED <<now, envVars, webVars, shellVars>>

FileDrop(path) ==
  /\ handleDrop(path)
  /\ UNCHANGED <<playVars, engineVars, now, envVars, webVars, shellVars>>

WaveformReadyEvent(k) ==
  /\ WaveformReady(k)
  /\ Idle
  /\ UNCHANGED <<now, envVars, webVars, shellVars>>

LoadFailure(k) ==
  /\ LoadFailed(k)
  /\ Idle
  /\ UNCHANGED <<now, envVars, webVars, shellVars>>

PadDrop(padId, f) ==
  /\ PadGrid_handleDrop(padId, f)
  /\ Idle
  /\ UNCHANGED <<now, envVars, webVars, shellVars>>

MarkerMouseDown(marker) ==
  /\ handleMarkerMouseDown(marker)
  /\ Idle
  /\ UNCHANGED <<now, envVars, webVars, shellVars>>

MouseMove(x) ==
  /\ handleMouseMove(x)
  /\ Idle
  /\ UNCHANGED <<now, envVars, webVars, shellVars>>

MouseUp ==
  /\ handleMouseUp
  /\ Idle
  /\ UNCHANGED <<now, envVars, webVars, shellVars>>

KnobMouseDown(name) ==
  /\ Knob_handleMouseDown(name)
  /\ Idle
  /\ UNCHANGED <<regVars, now, webVars, shellVars>>

KnobMouseMove(delta) ==
  /\ Knob_handleMouseMove(delta)
  /\ Idle
  /\ UNCHANGED <<regVars, now, webVars, shellVars>>

KnobMouseUp ==
  /\ Knob_handleMouseUp
  /\ Idle
  /\ UNCHANGED <<regVars, now, webVars, shellVars>>

VoiceFinished(padId) ==
  /\ voiceFinished(padId)
  /\ ipcOut' = <<>>
  /\ UNCHANGED <<regVars, playVars, now, envVars, webVars, shellVars>>

PadClickStep == \E id \in PadInputs : PadClick(id)

KeyPressStep == \E key \in Keys : KeyPress(key)

ToggleStep == \E id \in PadInputs, type \in {"mute", "solo"} : PadToggle(id, type)

DropStepOf(files) == \E path \in {FilePath(f) : f \in files} \cup {<<>>} : FileDrop(path)

WaveformReadyStep == \E k \in 1..MaxInFlight : WaveformReadyEvent(k)

LoadFailedStep == \E k \in 1..MaxInFlight : LoadFailure(k)

PadDropStepOf(files) == \E padId \in PadInputs, f \in files : PadDrop(padId, f)

MarkerDownStep == \E marker \in {"start", "end"} : MarkerMouseDown(marker)

MouseMoveStep == \E x \in MouseXs : MouseMove(x)

MouseUpStep == MouseUp

KnobDownStep == \E name \in KnobNames : KnobMouseDown(name)

KnobMoveStep == \E delta \in KnobDeltas : KnobMouseMove(delta)

KnobUpStep == KnobMouseUp

VoiceFinishedStep == \E padId \in PadInputs : VoiceFinished(padId)

(***************************************************************************)
(* SpecTrim: the trim markers of the selected pad, with pad clicks and     *)
(* buffer loads                                                            *)
(***************************************************************************)
TrimPadDropStep == PadDropStepOf({1, 2})

TrimNext ==
  \/ PadClickStep
  \/ MarkerDownStep
  \/ MouseMoveStep
  \/ MouseUpStep
  \/ TrimPadDropStep

SpecTrim == Init /\ [][TrimNext]_vars

\* C6: in every reachable state every pad's trim points satisfy
\* 0 <= startPoint < endPoint <= 1
C6_TrimOrdered ==
  \A i \in Pads :
    /\ 0 <= pads[i].startPoint
    /\ pads[i].startPoint < pads[i].endPoint
    /\ pads[i].endPoint <= TrimScale

\* a pad whose two markers were both dragged, the start one up against the end
C6_Witness ==
  \E i \in Pads :
    /\ pads[i].startPoint > 0
    /\ pads[i].endPoint < TrimScale
    /\ pads[i].startPoint = pads[i].endPoint - 1

\* a drag to x asks for an inverted ordering
Inverting(x) ==
  \/ draggingMarker = "start" /\ normalizedX(x) >= endPointProp
  \/ draggingMarker = "end" /\ normalizedX(x) <= startPointProp

trimOf(p) == <<p.startPoint, p.endPoint>>

\* C7 as claimed: a trim change that would invert the ordering is rejected,
\* both trim values stay what they were
C7_InvertingRejected ==
  [][ \A x \in MouseXs :
        (Inverting(x) /\ MouseMove(x))
          => trimOf(pads'[selectedPadId]) = trimOf(pads[selectedPadId]) ]_vars

\* C7 amended: a trim change that would invert the ordering is clamped to the
\* nearest valid value (start to end - 0.01, end to start + 0.01), the other
\* trim value and every other pad's trim stay what they were
C7_InvertingClamped ==
  [][ \A x \in MouseXs :
        (Inverting(x) /\ MouseMove(x))
          => /\ draggingMarker = "start" =>
                  trimOf(pads'[selectedPadId]) =
                    <<pads[selectedPadId].endPoint - 1, pads[selectedPadId].endPoint>>
             /\ draggingMarker = "end" =>
                  trimOf(pads'[selectedPadId]) =
                    <<pads[selectedPadId].startPoint, pads[selectedPadId].startPoint + 1>>
             /\ \A i \in Pads \ {selectedPadId} : trimOf(pads'[i]) = trimOf(pads[i]) ]_vars

\* the end marker was dragged below the start marker and sits 0.01 above it
C7_Witness ==
  \E i \in Pads :
    /\ pads[i].startPoint = TrimScale \div 2
    /\ pads[i].endPoint = pads[i].startPoint + 1

(***************************************************************************)
(* SpecReload: both load paths on pads whose markers were dragged          *)
(***************************************************************************)
ReloadDropStep == DropStepOf({1})

ReloadPadDropStep == PadDropStepOf({1})

ReloadMarkerDownStep == MarkerMouseDown("start")

ReloadMouseMoveStep == MouseMove(50)

ReloadNext ==
  \/ PadClickStep
  \/ ReloadMarkerDownStep
  \/ ReloadMouseMoveStep
  \/ MouseUpStep
  \/ ReloadDropStep
  \/ WaveformReadyStep
  \/ ReloadPadDropStep

SpecReload == Init /\ [][ReloadNext]_vars

\* C8 as claimed: after a successful load on a pad completes, on either load
\* path, the pad's trim is (0, 1) and its label is the one derived from the
\* new file's name
C8_LoadResetsTrimAndLabel ==
  [][ /\ \A k \in 1..Len(loads) :
           WaveformReadyEvent(k) =>
             /\ trimOf(pads'[loads[k].pad_id]) = <<0, TrimScale>>
             /\ pads'[loads[k].pad_id].label = dropLabel(loads[k].file_path)
      /\ \A padId \in PadInputs, f \in Files :
           (FileDecodes(f) /\ PadDrop(padId, f)) =>
             /\ trimOf(pads'[padId]) = <<0, TrimScale>>
             /\ pads'[padId].label = bufferLabel(FileName(f)) ]_vars

(***************************************************************************)
(* SpecLoad: drops from the host and the engine's answers                  *)
(***************************************************************************)
LoadDropStep == DropStepOf(Files)

LoadNext ==
  \/ PadClickStep
  \/ LoadDropStep
  \/ WaveformReadyStep
  \/ LoadFailedStep

SpecLoad == Init /\ [][LoadNext]_vars

\* C5 as claimed: when a file is dropped on a pad and its decode fails, the
\* pad's sample reference, label, peaks and duration are what they were before
\* the drop: neither the drop nor the failure changes them
C5_FailedLoadLeavesPad ==
  [][ /\ \A f \in Files :
           (~FileDecodes(f) /\ FileDrop(FilePath(f))) =>
             sampleState(pads'[selectedPadId]) = sampleState(pads[selectedPadId])
      /\ \A k \in 1..Len(loads) :
           LoadFailure(k) =>
             sampleState(pads'[loads[k].pad_id]) = sampleState(pads[loads[k].pad_id]) ]_vars

(***************************************************************************)
(* SpecFlags: mute and solo, on pads that are clicked, loaded and trimmed  *)
(***************************************************************************)
FlagsPadDropStep == PadDropStepOf({1, 3})

FlagsNext ==
  \/ PadClickStep
  \/ ToggleStep
  \/ FlagsPadDropStep
  \/ MarkerDownStep
  \/ MouseMoveStep
  \/ MouseUpStep

SpecFlags == Init /\ [][FlagsNext]_vars

\* C9: a mute (solo) toggle on a pad flips that flag of that pad and nothing
\* else: the pad's other flag, label, trim, sample and peaks, every other pad
\* and the selection stay what they were
C9_ToggleFrame ==
  [][ \A id \in PadInputs, type \in {"mute", "solo"} :
        PadToggle(id, type) =>
          /\ pads'[id].isMuted = (IF type = "mute" THEN ~pads[id].isMuted
                                                   ELSE pads[id].isMuted)
          /\ pads'[id].isSolo = (IF type = "solo" THEN ~pads[id].isSolo
                                                  ELSE pads[id].isSolo)
          /\ [pads'[id] EXCEPT !.isMuted = pads[id].isMuted,
                               !.isSolo = pads[id].isSolo] = pads[id]
          /\ \A j \in Pads \ {id} : pads'[j] = pads[j]
          /\ selectedPadId' = selectedPadId ]_vars

\* a loaded, trimmed pad with both flags set, beside a pad with solo alone
C9_Witness ==
  /\ pads[0].isMuted /\ pads[0].isSolo
  /\ pads[0].label # <<>> /\ pads[0].startPoint > 0
  /\ ~pads[1].isMuted /\ pads[1].isSolo

(***************************************************************************)
(* SpecGate: what a trigger of a pad does, by the pad's sample and flags   *)
(***************************************************************************)
GateDropStep == DropStepOf({1})

GateNext ==
  \/ PadClickStep
  \/ KeyPressStep
  \/ ToggleStep
  \/ GateDropStep
  \/ WaveformReadyStep
  \/ VoiceFinishedStep

SpecGate == Init /\ [][GateNext]_vars

\* a step that triggers pad padId: a click on it or a press of its key
Trigger(padId) ==
  \/ PadClick(padId)
  \/ \E key \in Keys :
       /\ toLowerChar(key) \in DOMAIN keyMap
       /\ keyMap[toLowerChar(key)] = padId
       /\ KeyPress(key)

PlaySent(padId) ==
  \E k \in 1..Len(ipcOut') :
    ipcOut'[k].command = "Play" /\ ipcOut'[k].payload.pad_id = padId

\* no Play command sent, no playback state changed, no voice created
SilentNoop ==
  /\ \A k \in 1..Len(ipcOut') : ipcOut'[k].command # "Play"
  /\ UNCHANGED playVars
  /\ UNCHANGED voices

\* C3 as claimed: a trigger of pad P is a silent no-op exactly when P has no
\* sample or P is muted and not soloed; a muted and soloed pad with a sample
\* is played
C3_NoopExactlyWhenRefused ==
  [][ \A padId \in PadInputs :
        Trigger(padId) =>
          (SilentNoop <=> ( \/ pads[padId].filePath = <<>>
                            \/ pads[padId].isMuted /\ ~pads[padId].isSolo )) ]_vars

\* C4 as claimed: in a state where some pad is soloed, a trigger of a pad that
\* is not soloed sends no Play to the engine
C4_SoloSilencesOthers ==
  [][ \A padId \in PadInputs :
        ( /\ Trigger(padId)
          /\ \E j \in Pads : pads[j].isSolo
          /\ ~pads[padId].isSolo )
          => ~PlaySent(padId) ]_vars

(***************************************************************************)
(* SpecEnv: the envelope knobs and the voices the engine creates           *)
(***************************************************************************)
EnvDropStep == DropStepOf({1})

EnvNext ==
  \/ KeyPressStep
  \/ EnvDropStep
  \/ WaveformReadyStep
  \/ KnobDownStep
  \/ KnobMoveStep
  \/ KnobUpStep
  \/ VoiceFinishedStep

SpecEnv == Init /\ [][EnvNext]_vars

\* C10 as claimed: a voice triggered after the envelope settings were changed
\* uses the values in force at its trigger, and a voice in flight keeps the
\* envelope it captured
C10_EnvelopeAtTrigger ==
  [][ /\ \A padId \in PadInputs :
           (Trigger(padId) /\ PlaySent(padId)) =>
             \E v \in voices' : v.padId = padId /\ v.envelope = envelope
      /\ \A padId \in PadInputs :
           ~PlaySent(padId) =>
             \A v \in voices, w \in voices' :
               (v.padId = padId /\ w.padId = padId) => w.envelope = v.envelope ]_vars

(***************************************************************************)
(* The Web Audio application (App.tsx): the same pad registry, played      *)
(* through AudioBufferSourceNodes of the web view                          *)
(***************************************************************************)
KICK == <<"K", "I", "C", "K">>

InitWeb ==
  /\ pads = [i \in Pads |->
              [InitialPad(i) EXCEPT !.label = IF i = 0 THEN KICK ELSE <<>>]]
  /\ InitCommon

Web_handlePadSelect(id) ==
  /\ selectedPadId' = id
  /\ pads' = [i \in Pads |-> [pads[i] EXCEPT !.isActive = (pads[i].id = id)]]

Web_handlePadToggle(id, type) ==
  /\ pads' = [i \in Pads |-> IF pads[i].id # id THEN pads[i]
                             ELSE toggled(pads[i], type)]
  /\ UNCHANGED selectedPadId

\* the pad a buffer load leaves
Web_fileLoaded(p, f, fileName) ==
  [p EXCEPT !.audioBuffer = f, !.fileName = fileName, !.label = webLabel(fileName)]

Web_handleFileLoadToPad(padId, f, fileName) ==
  /\ pads' = [i \in Pads |->
               [ (IF pads[i].id = padId THEN Web_fileLoaded(pads[i], f, fileName)
                                        ELSE pads[i])
                 EXCEPT !.isActive = (pads[i].id = padId) ]]
  /\ selectedPadId' = padId

\* PadGrid.handleDrop with onFileLoadToPad of App.tsx
Web_PadGrid_handleDrop(padId, f) ==
  IF isAudioFile(f) /\ FileDecodes(f)
  THEN Web_handleFileLoadToPad(padId, f, FileName(f))
  ELSE UNCHANGED <<pads, selectedPadId>>

\* a source the destination still hears: started, not stopped, not at its end
Live(s) ==
  /\ sources[s].state = "started"
  /\ now < sources[s].start + sources[s].duration

\* AudioBufferSourceNode.stop(): the node falls silent, its ended event is due
stop(srcs, s) ==
  IF s = 0 THEN srcs ELSE [srcs EXCEPT ![s].state = "stopped"]

\* "Stop previous playback": the source currentSourceRef holds, if any
stopPrevious(srcs, ref) == stop(srcs, ref)

\* createBufferSource, connect, source.start(0)
started(padId, buffer) ==
  [state |-> "started", pad |-> padId, start |-> now,
   duration |-> FileDuration(buffer), envelope |-> envelope]

Web_playPad(padId) ==
  LET pad == pads[padId] IN
  IF pad.audioBuffer = 0 \/ pad.isMuted
  THEN UNCHANGED <<playVars, webVars>>
  ELSE \E s \in SourceIds :
         /\ sources[s].state = "free"
         /\ \A t \in SourceIds : sources[t].state = "free" => s <= t
         /\ sources' = [stopPrevious(sources, currentSourceRef)
                          EXCEPT ![s] = started(padId, pad.audioBuffer)]
         /\ currentSourceRef' = s
         /\ UNCHANGED dimensions
         /\ playStartTimeRef' = now
         /\ animate(FileDuration(pad.audioBuffer), TRUE)

\* source.onended: the ended event of a stopped or finished source
Web_onended(s) ==
  /\ \/ sources[s].state = "stopped"
     \/ sources[s].state = "started" /\ ~Live(s)
  /\ isPlaying' = FALSE
  /\ playProgress' = 0
  /\ currentSourceRef' = 0
  /\ sources' = [sources EXCEPT ![s] = NoSource]
  /\ UNCHANGED <<animationFrameRef, playStartTimeRef, raf, dimensions>>

Web_handleKeyPress(key) ==
  LET lower == toLowerChar(key) IN
  IF lower \in DOMAIN keyMap
  THEN Web_playPad(keyMap[lower])
  ELSE UNCHANGED <<playVars, webVars>>

Web_handlePadClick(id) ==
  /\ Web_handlePadSelect(id)
  /\ Web_playPad(id)

\* what no handler of the Web Audio application writes
WebRest ==
  UNCHANGED <<hasUnsavedChanges, draggingMarker, markersDrawn, loads, ipcOut,
              envVars, engineVars, shellVars>>

Web_PadClick(id) ==
  /\ Web_handlePadClick(id)
  /\ UNCHANGED now
  /\ WebRest

Web_KeyPress(key) ==
  /\ Web_handleKeyPress(key)
  /\ UNCHANGED <<pads, selectedPadId, now>>
  /\ WebRest

Web_PadToggle(id, type) ==
  /\ Web_handlePadToggle(id, type)
  /\ UNCHANGED <<playVars, webVars, now>>
  /\ WebRest

Web_PadDrop(padId, f) ==
  /\ Web_PadGrid_handleDrop(padId, f)
  /\ UNCHANGED <<playVars, webVars, now>>
  /\ WebRest

Web_Ended(s) ==
  /\ Web_onended(s)
  /\ UNCHANGED <<pads, selectedPadId, now>>
  /\ WebRest

Web_AnimationFrame ==
  /\ animationFrame
  /\ UNCHANGED <<pads, selectedPadId, now, webVars>>
  /\ WebRest

\* AudioContext.currentTime advances
Tick ==
  /\ now < MaxTime
  /\ now' = now + 1
  /\ UNCHANGED <<pads, selectedPadId, playVars, webVars>>
  /\ WebRest

(***************************************************************************)
(* SpecWeb: triggers, ended events and the clock of the Web Audio          *)
(* application                                                             *)
(***************************************************************************)
WebPadClickStep == \E id \in PadInputs : Web_PadClick(id)

WebKeyPressStep == \E key \in Keys : Web_KeyPress(key)

WebToggleStep == \E id \in PadInputs : Web_PadToggle(id, "mute")

WebPadDropStep == \E padId \in PadInputs, f \in {1, 3} : Web_PadDrop(padId, f)

WebEndedStep == \E s \in SourceIds : Web_Ended(s)

WebNext ==
  \/ WebPadClickStep
  \/ WebKeyPressStep
  \/ WebToggleStep
  \/ WebPadDropStep
  \/ WebEndedStep
  \/ Web_AnimationFrame
  \/ Tick

SpecWeb == InitWeb /\ [][WebNext]_vars

\* a step that triggers pad padId in the Web Audio application
Web_Trigger(padId) ==
  \/ Web_PadClick(padId)
  \/ \E key \in Keys :
       /\ toLowerChar(key) \in DOMAIN keyMap
       /\ keyMap[toLowerChar(key)] = padId
       /\ Web_KeyPress(key)

LiveOf(padId) == {s \in SourceIds : Live(s) /\ sources[s].pad = padId}

\* C1 as claimed: after any sequence of triggers of a pad, interleaved in any
\* order with the ended callbacks of stopped or finished sources, at most one
\* source started for the pad is live
C1_OneLiveSourcePerPad ==
  \A padId \in Pads : Cardinality(LiveOf(padId)) <= 1

\* C2 as claimed: a trigger of pad P leaves live every source of another pad
\* that was live before it
C2_OtherPadsKeepPlaying ==
  [][ \A padId \in PadInputs, s \in SourceIds :
        ( /\ Web_Trigger(padId)
          /\ Live(s)
          /\ sources[s].pad # padId )
          => Live(s)' ]_vars

(***************************************************************************)
(* The gain automation playPad schedules on the GainNode of a source.      *)
(* Times are in halves of a millisecond from the trigger, values in        *)
(* two-hundredths (gain 1 is GainOne), a value at a time is a fraction     *)
(* <<numerator, denominator>>.                                             *)
(***************************************************************************)
GainOne == KnobMax * KnobScale

\* AudioParam.setValueAtTime
setValueAtTime(events, value, time) ==
  Append(events, [type |-> "set", value |-> value, time |-> time])

\* AudioParam.linearRampToValueAtTime
linearRampToValueAtTime(events, value, time) ==
  Append(events, [type |-> "ramp", value |-> value, time |-> time])

\* mutant: the two ramps scheduled in the other order of targets
gainSchedule_sustainFirst(env) ==
  linearRampToValueAtTime(
    linearRampToValueAtTime(setValueAtTime(<<>>, 0, 0), env.sustain, env.attack),
    GainOne, env.attack + env.decay)

\* "Apply envelope": attackTime = attack / 1000, decayTime = decay / 1000,
\* sustainLevel = sustain / 100
gainSchedule(env) ==
  linearRampToValueAtTime(
    linearRampToValueAtTime(setValueAtTime(<<>>, 0, 0), GainOne, env.attack),
    env.sustain, env.attack + env.decay)

\* the value of the AudioParam at time t: the last event at or before t holds,
\* unless a ramp that ends later follows it, which interpolates from it
valueAt(events, t) ==
  LET past == {i \in 1..Len(events) : events[i].time <= t}
      i    == CHOOSE k \in past : \A j \in past : j <= k
  IN  IF i < Len(events) /\ events[i + 1].type = "ramp"
      THEN LET span == events[i + 1].time - events[i].time
           IN  << events[i].value * span
                    + (events[i + 1].value - events[i].value) * (t - events[i].time),
                  span >>
      ELSE <<events[i].value, 1>>

\* the gain of source s, t after its start
gainOf(s, t) == valueAt(gainSchedule(sources[s].envelope), t)

FracLE(a, b) == a[1] * b[2] <= b[1] * a[2]

FracEQ(a, b) == a[1] * b[2] = b[1] * a[2]

\* the instants looked at: the longest attack and decay, and beyond
GainHorizon == 2 * GainOne + 2

\* envelope settings the knobs can leave: ends, defaults, halves
GainAttacks == {0, 1, 60, 200}

GainDecays == {0, 1, 100, 200}

GainSustains == {0, 101, 160, 200}

\* the Web Audio application after the knobs were set
InitGain ==
  /\ pads = [i \in Pads |->
              [InitialPad(i) EXCEPT !.label = IF i = 0 THEN KICK ELSE <<>>]]
  /\ InitRest
  /\ envelope \in [attack : GainAttacks, decay : GainDecays, sustain : GainSustains]

GainPadDropStep == \E padId \in PadInputs : Web_PadDrop(padId, 1)

GainNext ==
  \/ WebPadClickStep
  \/ WebKeyPressStep
  \/ GainPadDropStep
  \/ WebEndedStep

SpecGain == InitGain /\ [][GainNext]_vars

\* C11: the gain of a triggered source starts at 0 when there is an attack,
\* never falls during the attack and stays at or below 1, is 1 at the end of
\* the attack when there is a decay, never rises during the decay, and is
\* the sustain level from the end of the decay on; with no attack and no
\* decay it is the sustain level from the first instant
C11_GainSchedule ==
  \A s \in SourceIds :
    sources[s].state # "free" =>
      LET env == sources[s].envelope
          A   == env.attack
          D   == env.decay
      IN  /\ A > 0 => FracEQ(gainOf(s, 0), <<0, 1>>)
          /\ \A t \in 0..GainHorizon :
               /\ t + 1 < A => FracLE(gainOf(s, t), gainOf(s, t + 1))
               /\ t < A => FracLE(gainOf(s, t), <<GainOne, 1>>)
               /\ (A <= t /\ t + 1 <= A + D) => FracLE(gainOf(s, t + 1), gainOf(s, t))
               /\ t >= A + D => FracEQ(gainOf(s, t), <<env.sustain, 1>>)
          /\ D > 0 => FracEQ(gainOf(s, A), <<GainOne, 1>>)

\* a source triggered with an attack, a decay and a sustain level below 1
C11_Witness ==
  \E s \in SourceIds :
    /\ sources[s].state = "started"
    /\ sources[s].envelope.attack = 1
    /\ sources[s].envelope.decay = 200
    /\ sources[s].envelope.sustain = 101

(***************************************************************************)
(* SpecProgress: the playhead of the IPC application, with the clock and   *)
(* the animation frames of the web view.  The web view keeps running       *)
(* requested frames and its clock keeps advancing.                         *)
(***************************************************************************)
AnimationFrame ==
  /\ animationFrame
  /\ ipcOut' = <<>>
  /\ UNCHANGED <<regVars, now, envVars, engineVars, webVars, shellVars>>

ProgressDropStep == DropStepOf({1})

ProgressNext ==
  \/ KeyPressStep
  \/ ProgressDropStep
  \/ WaveformReadyStep
  \/ AnimationFrame
  \/ Tick

SpecProgress ==
  /\ Init
  /\ [][ProgressNext]_vars
  /\ WF_vars(AnimationFrame)
  /\ WF_vars(Tick)

\* a playback triggered at t0 that the clock of the model can see through
Running(t0, duration) ==
  /\ isPlaying
  /\ playStartTimeRef = t0
  /\ raf = [pending |-> TRUE, duration |-> duration]
  /\ t0 + duration <= MaxTime

\* the playback started at t0 was replaced by a further trigger
Retriggered(t0, duration) ==
  \/ playStartTimeRef # t0
  \/ raf.pending /\ raf.duration # duration

\* the sample lengths a playback can have
Durations == {playDuration(InitialPad(0))} \cup {FileDuration(f) : f \in Files}

\* C12 as claimed: after a Play with no further trigger the reported progress
\* eventually reaches 1.0
C12_ProgressReachesOne ==
  \A t0 \in 0..MaxTime, duration \in Durations :
    Running(t0, duration)
      ~> (playProgress = ProgressScale \/ Retriggered(t0, duration))

\* C12 amended: after a Play on a loaded, unmuted pad the reported progress
\* stays within [0, 1) and never falls from frame to frame while the playback
\* runs; with no further trigger the loop eventually stops: isPlaying is
\* false, no frame is requested and the progress is back at 0, without ever
\* resting at 1.0
C12_ProgressRunsOut ==
  /\ [](0 <= playProgress /\ playProgress < ProgressScale)
  /\ [][ AnimationFrame =>
           \/ isPlaying' /\ playProgress' >= playProgress /\ raf'.pending
           \/ ~isPlaying' /\ playProgress' = 0 /\ ~raf'.pending ]_vars
  /\ [](~isPlaying => playProgress = 0 /\ ~raf.pending)
  /\ \A t0 \in 0..MaxTime, duration \in Durations :
        Running(t0, duration) ~> (~isPlaying \/ Retriggered(t0, duration))

\* a playback half way through its sample
C12_Witness ==
  /\ isPlaying
  /\ playProgress = ProgressScale \div 2
  /\ raf.pending

(***************************************************************************)
(* Muting a pad whose sample is sounding.  handlePadToggle only flips the   *)
(* flag of the pad record: the source node, its gain node and the playback *)
(* cursor are left as they are, and the IPC application sends no command.   *)
(***************************************************************************)

\* the sources of a pad that reach the destination: a started source stays
\* connected through its gain node until it is stopped or runs out
Audible(padId) == LiveOf(padId)

\* C13 as claimed: muting a pad while a source of it is live stops the pad's
\* audio contribution and leaves the progress reporting of the playback
\* running
C13_MuteSilencesLiveVoice ==
  [][ \A padId \in PadInputs :
        ( /\ Web_PadToggle(padId, "mute")
          /\ ~pads[padId].isMuted
          /\ Audible(padId) # {} )
          => /\ Audible(padId)' = {}
             /\ UNCHANGED playVars ]_vars

(***************************************************************************)
(* Commands with a caller-supplied pad id.  AudioEngine is exported as the *)
(* singleton audioEngine; its methods post whatever they are given.        *)
(* playPad indexes the pad array with its argument and reads a field of    *)
(* the result.                                                             *)
(***************************************************************************)
\* AudioEngine.stop
AudioEngine_stop(padId) == send("Stop", [pad_id |-> padId])

\* playPad for any argument: pads[padId] is undefined outside the array, and
\* reading pad.filePath of undefined throws a TypeError nothing catches
playPadOf(padId) ==
  IF padId \in DOMAIN pads
  THEN playPad(padId) /\ UNCHANGED uncaught
  ELSE /\ uncaught' = TRUE
       /\ ipcOut' = <<>>
       /\ UNCHANGED playVars

\* pad ids a caller may pass: below, inside and above the bank
PadIds == {-1, 0, 1, NumPads}

PlayPadCall(padId) ==
  /\ playPadOf(padId)
  /\ engineReceives
  /\ UNCHANGED <<regVars, now, envVars, webVars, masterVolume, showExitDialog>>

\* what a call of a method of audioEngine leaves alone
ApiRest ==
  UNCHANGED <<pads, selectedPadId, hasUnsavedChanges, draggingMarker,
              markersDrawn, playVars, now, envVars, webVars, shellVars>>

PlayCall(padId, f) ==
  /\ ipcOut' = play(padId, FilePath(f), 1, 0)
  /\ engineReceives
  /\ UNCHANGED loads
  /\ ApiRest

StopCall(padId) ==
  /\ ipcOut' = AudioEngine_stop(padId)
  /\ engineReceives
  /\ UNCHANGED loads
  /\ ApiRest

LoadCall(padId, f) ==
  /\ Len(loads) < MaxInFlight
  /\ ipcOut' = load(padId, FilePath(f))
  /\ loads' = loads \o accepted(ipcOut')
  /\ UNCHANGED engineVars
  /\ ApiRest

PlayPadCallStep == \E padId \in PadIds : PlayPadCall(padId)

PlayCallStep == \E padId \in PadIds, f \in {1} : PlayCall(padId, f)

StopCallStep == \E padId \in PadIds : StopCall(padId)

LoadCallStep == \E padId \in PadIds, f \in {1, 3} : LoadCall(padId, f)

ApiDropStep == DropStepOf({1})

ApiNext ==
  \/ PlayPadCallStep
  \/ PlayCallStep
  \/ StopCallStep
  \/ LoadCallStep
  \/ ApiDropStep
  \/ WaveformReadyStep
  \/ LoadFailedStep
  \/ VoiceFinishedStep
  \/ AnimationFrame
  \/ Tick

SpecApi == Init /\ [][ApiNext]_vars

\* a Play, Stop or Load command for pad id padId
PadCommand(padId) ==
  \/ PlayPadCall(padId)
  \/ \E f \in Files : PlayCall(padId, f)
  \/ StopCall(padId)
  \/ \E f \in Files : LoadCall(padId, f)

VolumeOne == KnobMax * KnobScale

\* AudioEngine.setMasterVolume
setMasterVolume(volume) == send("SetMasterVolume", [volume |-> volume])

\* handleMasterVolumeChange; value is in halves of a percent
handleMasterVolumeChange(value) ==
  /\ masterVolume' = value
  /\ ipcOut' = setMasterVolume((value * VolumeOne) \div (100 * KnobScale))

\* Knob.handleMouseDown of the Volume knob
Volume_handleMouseDown ==
  /\ knob.name = "none"
  /\ knob' = [name |-> "volume", startValue |-> masterVolume]

\* Knob.handleMouseMove with onChange = handleMasterVolumeChange
Volume_handleMouseMove(delta) ==
  /\ knob.name = "volume"
  /\ handleMasterVolumeChange(knobValue(knob.startValue, delta))
  /\ UNCHANGED knob

VolumeMouseDown ==
  /\ Volume_handleMouseDown
  /\ Idle
  /\ UNCHANGED <<regVars, now, envelope, webVars, shellVars>>

VolumeMouseMove(delta) ==
  /\ Volume_handleMouseMove(delta)
  /\ engineReceives
  /\ UNCHANGED <<regVars, playVars, now, envelope, webVars, showExitDialog,
                 uncaught>>

\* a call of audioEngine.setMasterVolume with any argument
SetMasterVolumeCall(volume) ==
  /\ ipcOut' = setMasterVolume(volume)
  /\ engineReceives
  /\ UNCHANGED loads
  /\ ApiRest

\* pointer travels of the Volume knob, in pixels
VolumeDeltas == {-300, -99, 300}

\* arguments tried: -0.5, 0, 0.5, 1 and 1.5
Volumes == {0 - (VolumeOne \div 2), 0, VolumeOne \div 2, VolumeOne,
            VolumeOne + (VolumeOne \div 2)}

VolumeDownStep == VolumeMouseDown

VolumeMoveStep == \E delta \in VolumeDeltas : VolumeMouseMove(delta)

SetMasterVolumeCallStep == \E volume \in Volumes : SetMasterVolumeCall(volume)

VolumeNext ==
  \/ VolumeDownStep
  \/ VolumeMoveStep
  \/ KnobDownStep
  \/ KnobMoveStep
  \/ KnobUpStep
  \/ SetMasterVolumeCallStep

SpecVolume == Init /\ [][VolumeNext]_vars

KnobTravels == {-300, 101, 300}

KnobTravelStep == \E delta \in KnobTravels : KnobMouseMove(delta)

KnobNext ==
  \/ KnobDownStep
  \/ KnobTravelStep
  \/ KnobUpStep

SpecKnob == Init /\ [][KnobNext]_vars

\* a knob value that is a whole number of units
isInteger(value) == value % KnobScale = 0

\* C16 as claimed: after any sequence of knob drags attack and decay are
\* non-negative integers and sustain lies in 0..100
C16_EnvelopeValid ==
  /\ envelope.attack >= 0 /\ isInteger(envelope.attack)
  /\ envelope.decay >= 0 /\ isInteger(envelope.decay)
  /\ KnobMin * KnobScale <= envelope.sustain
  /\ envelope.sustain <= KnobMax * KnobScale

(***************************************************************************)
(* SpecLabel: the labels the Web Audio application derives from file       *)
(* names, for a drop on the waveform display (the selected pad) and a drop *)
(* on a pad of the grid.                                                   *)
(***************************************************************************)
\* handleFileLoad: the buffer goes to the selected pad
Web_handleFileLoad(f, fileName) ==
  /\ pads' = [i \in Pads |-> IF pads[i].id # selectedPadId THEN pads[i]
                              ELSE Web_fileLoaded(pads[i], f, fileName)]
  /\ UNCHANGED selectedPadId

\* WaveformDisplay.handleDrop with onFileLoad of App.tsx
Web_WaveformDisplay_handleDrop(f) ==
  IF isAudioFile(f) /\ FileDecodes(f)
  THEN Web_handleFileLoad(f, FileName(f))
  ELSE UNCHANGED <<pads, selectedPadId>>

Web_WaveformDrop(f) ==
  /\ Web_WaveformDisplay_handleDrop(f)
  /\ UNCHANGED <<playVars, webVars, now>>
  /\ WebRest

LabelPadDropStep == \E padId \in PadInputs, f \in Files : Web_PadDrop(padId, f)

LabelWaveformDropStep == \E f \in Files : Web_WaveformDrop(f)

LabelNext ==
  \/ WebPadClickStep
  \/ LabelPadDropStep
  \/ LabelWaveformDropStep
  \/ WebEndedStep
  \/ Tick

SpecLabel == InitWeb /\ [][LabelNext]_vars

\* C17 as claimed: every pad's label is at most 8 characters long and
\* upper-cased, whatever file was loaded through whatever load path
C17_LabelsShortUpper ==
  \A i \in Pads :
    /\ Len(pads[i].label) <= LabelLen
    /\ pads[i].label = toUpperCase(pads[i].label)

(***************************************************************************)
(* SpecBank: every operation on the pad bank of the IPC application:       *)
(* select, toggle, both load paths with the engine's answers, and trim.    *)
(* Each handler maps over the array and looks pads up by their id field.   *)
(***************************************************************************)
BankDropStep == DropStepOf({1})

BankPadDropStep == PadDrop(1, 1)

BankToggleStep == PadToggle(1, "mute")

BankMouseMoveStep == MouseMove(50)

BankMarkerDownStep == MarkerMouseDown("start")

BankNext ==
  \/ PadClickStep
  \/ BankToggleStep
  \/ BankDropStep
  \/ WaveformReadyStep
  \/ BankPadDropStep
  \/ BankMarkerDownStep
  \/ BankMouseMoveStep
  \/ MouseUpStep

SpecBank == Init /\ [][BankNext]_vars

\* C18: in every reachable state there are exactly 32 pads, at the indices
\* 0..31, and the pad at index i has id i: no select, toggle, load, trim or
\* WaveformReady adds, removes or re-identifies a pad
C18_PadBankFixed ==
  /\ DOMAIN pads = 0..(NumPads - 1)
  /\ Cardinality(DOMAIN pads) = NumPads
  /\ \A i \in DOMAIN pads : pads[i].id = i

\* a bank every kind of operation has acted on: pad 0 loaded by the engine,
\* pad 1 loaded from a buffer, muted, trimmed and selected
C18_Witness ==
  /\ pads[0].waveformPeaks # <<>> /\ pads[0].filePath # <<>>
  /\ pads[1].audioBuffer # 0
  /\ pads[1].isMuted
  /\ pads[1].startPoint > 0
  /\ selectedPadId = 1

(***************************************************************************)
(* Unsaved-changes protection.  The beforeunload listener is registered    *)
(* anew whenever hasUnsavedChanges changes, so it always reads the current *)
(* value.                                                                  *)
(***************************************************************************)
\* handleBeforeUnload: what a window close meets
handleBeforeUnload == IF hasUnsavedChanges THEN "prevented" ELSE "default"

\* the work a pad holds: everything but the selection highlight
workOf(p) == [p EXCEPT !.isActive = FALSE]

\* C19 as claimed: after any operation that changed a pad (a load by file
\* drop or buffer, a mute or solo toggle, a trim change) hasUnsavedChanges is
\* true and a window close is intercepted; once true it stays true
C19_ChangesAreProtected ==
  /\ [][ (\E i \in Pads : workOf(pads[i])' # workOf(pads[i])) =>
           /\ hasUnsavedChanges'
           /\ handleBeforeUnload' = "prevented" ]_vars
  /\ [][ hasUnsavedChanges => hasUnsavedChanges' ]_vars

(***************************************************************************)
(* The exit dialog.  The host calls window.__showExitDialog when the user  *)
(* closes the window; the Dialog component renders nothing while closed,   *)
(* and listens for Escape on the document while open.                      *)
(***************************************************************************)
\* AudioEngine.confirmExit; the payload is the empty object
confirmExit == send("ConfirmExit", <<>>)

\* window.__showExitDialog
showExitDialogCall == showExitDialog' = TRUE

handleConfirmExit ==
  /\ ipcOut' = confirmExit
  /\ UNCHANGED showExitDialog

handleCancelExit ==
  /\ showExitDialog' = FALSE
  /\ ipcOut' = <<>>

\* mutant: the dialog stays in the document while closed
Dialog_rendered_always == TRUE

\* Dialog: if (!isOpen) return null
Dialog_rendered == showExitDialog

\* what the user can click in the dialog; the panel stops the propagation of
\* clicks inside it, so a button click is not a backdrop click as well
DialogTargets == {"cancel", "close", "backdrop", "confirm"}

CancelTargets == {"cancel", "close", "backdrop"}

\* onClick of the Cancel button, the close button, the backdrop, the Exit button
Dialog_onClick(target) ==
  /\ Dialog_rendered
  /\ IF target = "confirm" THEN handleConfirmExit ELSE handleCancelExit

\* Dialog.handleEscape; the listener is registered while the dialog is open
Dialog_handleEscape(key) ==
  IF key = "Escape" /\ showExitDialog
  THEN showExitDialog' = FALSE
  ELSE UNCHANGED showExitDialog

ShowExitDialog ==
  /\ showExitDialogCall
  /\ Idle
  /\ UNCHANGED <<regVars, now, envVars, webVars, masterVolume, uncaught>>

DialogClick(target) ==
  /\ Dialog_onClick(target)
  /\ engineReceives
  /\ UNCHANGED <<regVars, playVars, now, envVars, webVars, masterVolume, uncaught>>

\* a keydown of Escape: the window listener of App and the document listener
\* of Dialog both run
EscapeKey ==
  /\ handleKeyPress("Escape")
  /\ Dialog_handleEscape("Escape")
  /\ engineReceives
  /\ UNCHANGED <<regVars, now, envVars, webVars, masterVolume, uncaught>>

DialogClickStep == \E target \in DialogTargets : DialogClick(target)

ExitDropStep == DropStepOf({1})

ExitToggleStep == PadToggle(0, "solo")

ExitNext ==
  \/ ShowExitDialog
  \/ DialogClickStep
  \/ EscapeKey
  \/ KeyPressStep
  \/ ExitDropStep
  \/ WaveformReadyStep
  \/ ExitToggleStep
  \/ VoiceFinishedStep

SpecExit == Init /\ [][ExitNext]_vars

\* the last handler posted a ConfirmExit
ConfirmExitSent == \E k \in 1..Len(ipcOut) : ipcOut[k].command = "ConfirmExit"

\* C20: a ConfirmExit is posted only by the confirm button of the exit
\* dialog, while the dialog is open, and the dialog is opened only by the
\* host's request; the Cancel button, the close button, a backdrop click and
\* Escape each close the dialog and post nothing
C20_ExitOnlyOnConfirm ==
  /\ [][ ConfirmExitSent' => (showExitDialog /\ DialogClick("confirm")) ]_vars
  /\ [][ (showExitDialog' /\ ~showExitDialog) => ShowExitDialog ]_vars
  /\ [][ \A target \in CancelTargets :
           DialogClick(target) => (~showExitDialog' /\ ipcOut' = <<>>) ]_vars
  /\ [][ (EscapeKey /\ showExitDialog) =>
           (~showExitDialog' /\ ipcOut' = <<>>) ]_vars

\* the user has confirmed in the open dialog, with unsaved work on a loaded
\* pad, and the engine holds no voice
C20_Witness ==
  /\ ConfirmExitSent
  /\ showExitDialog
  /\ hasUnsavedChanges
  /\ pads[0].waveformPeaks # <<>>
  /\ voices = {}

(***************************************************************************)
(* SpecKeys: the keyboard.  Each behaviour starts with one pad of the bank *)
(* loaded (the pad was clicked, kick.wav dropped on the window and its     *)
(* WaveformReady received), so that the pad a key triggers shows as the    *)
(* Play command it sends.                                                  *)
(***************************************************************************)
KickData == [pad_id |-> 0, peaks |-> FilePeaks(1), duration |-> FileDuration(1)]

\* the bank after pad p was selected and loaded with kick.wav
BankWith(p) ==
  [i \in Pads |->
     IF i = p
     THEN [waveformApplied(dropped(InitialPad(i), FilePath(1)), KickData)
             EXCEPT !.isActive = TRUE]
     ELSE [InitialPad(i) EXCEPT !.isActive = FALSE]]

InitKeys ==
  /\ \E p \in Pads : pads = BankWith(p) /\ selectedPadId = p
  /\ markersDrawn = TRUE
  /\ InitQuiet
  /\ envelope = InitialEnvelope

\* e.key of the keys tried: the mapped keys, plain and with shift held, and
\* keys that are not mapped
MappedKeys == ({LowerChars[i] : i \in 1..26} \ {"l", "o", "p"}) \cup {","}

AllKeys ==
  MappedKeys \cup {toUpperChar(key) : key \in MappedKeys}
             \cup {"l", "O", "p", "1", ";", ".", " ", "Enter", "Escape"}

AllKeyPressStep == \E key \in AllKeys : KeyPress(key)

KeysNext ==
  \/ AllKeyPressStep
  \/ AnimationFrame
  \/ Tick

SpecKeys == InitKeys /\ [][KeysNext]_vars

\* the rows of the documented mapping, for pads 1-8, 9-16 and 17-24
KeyRows ==
  << "Q", "W", "E", "R", "T", "Y", "U", "I",
     "A", "S", "D", "F", "G", "H", "J", "K",
     "Z", "X", "C", "V", "B", "N", "M", "," >>

\* the pad number (pad id + 1) the mapping gives a key, 0 for none
padNumberOf(key) ==
  IF \E n \in 1..Len(KeyRows) : KeyRows[n] = toUpperChar(key)
  THEN CHOOSE n \in 1..Len(KeyRows) : KeyRows[n] = toUpperChar(key)
  ELSE 0

\* the documented mapping over the keys tried
padNumber == [key \in AllKeys |-> padNumberOf(key)]

\* C21: a keydown of a key of the three rows, in either case, triggers the
\* pad of its position (a loaded, unmuted pad is sent a Play, and no other
\* pad is); any other key triggers no pad
C21_KeyboardMapping ==
  [][ \A key \in AllKeys :
        KeyPress(key) =>
          \A padId \in Pads :
            PlaySent(padId) <=>
              (padNumber[key] = padId + 1 /\ ~playRefused(pads[padId])) ]_vars

\* the last key of the third row has triggered pad 24
C21_Witness ==
  /\ \E k \in 1..Len(ipcOut) :
       ipcOut[k].command = "Play" /\ ipcOut[k].payload.pad_id = 23
  /\ isPlaying

\* C22 as claimed: every pad of the bank can be played from the keyboard:
\* for a loaded, unmuted pad of any id in 0..31 there is a key whose keydown
\* sends Play for that pad
C22_EveryPadHasKey ==
  \A padId \in Pads :
    ~playRefused(pads[padId]) =>
      \E key \in AllKeys : ENABLED (KeyPress(key) /\ PlaySent(padId))

(***************************************************************************)
(* SpecPeaks: buffers of 450, 1000 and 150 frames dropped on the pads; the *)
(* peaks handleFileLoadToPad stores for them.                              *)
(***************************************************************************)
Buffers == {1, 2, 4}

PeaksDropStep == \E padId \in PadInputs, f \in Buffers : PadDrop(padId, f)

PeaksToggleStep == \E id \in PadInputs : PadToggle(id, "mute")

PeaksNext ==
  \/ PeaksDropStep
  \/ PeaksToggleStep
  \/ PadClickStep

SpecPeaks == Init /\ [][PeaksNext]_vars

\* a peak that is a number, and not below zero
wellDefined(peak) == ~peak.nan /\ peak.num >= 0 /\ peak.den > 0

\* the most peaks a sample may have
MaxPeaks == 500

\* C23: the peaks of a loaded sample are at most 500, as many for a short
\* sample as for a long one, and each of them is a well-defined value that
\* is not negative, also when the sample has fewer frames than peaks.
C23_PeaksWellDefined ==
  \A p \in Pads :
    pads[p].audioBuffer # 0 =>
      /\ Len(pads[p].waveformPeaks) <= MaxPeaks
      /\ \A q \in Pads :
           pads[q].audioBuffer # 0 =>
             Len(pads[q].waveformPeaks) = Len(pads[p].waveformPeaks)
      /\ \A k \in 1..Len(pads[p].waveformPeaks) :
           wellDefined(pads[p].waveformPeaks[k])

\* C24: the peaks of a loaded sample are the un-normalised mean absolute
\* amplitudes of min(500, frameCount) contiguous blocks of
\* ceil(frameCount / peakCount) frames, which cover every frame once.
C24_PeaksPartition ==
  \A p \in Pads :
    pads[p].audioBuffer # 0 =>
      LET rawData == getChannelData(pads[p].audioBuffer) IN
      pads[p].waveformPeaks = downsample_ceil(rawData, Min(MaxPeaks, Len(rawData)))

(***************************************************************************)
(* SpecDraw: the WaveformDisplay of the Web Audio application.  Its effect *)
(* runs after every render in which audioBuffer or dimensions changed, so  *)
(* what the svg shows for a buffer is a function of the buffer and the     *)
(* width.                                                                  *)
(***************************************************************************)
\* the container widths a resize can leave (clientWidth, in pixels)
Widths == {300, 800}

\* updateDimensions: setDimensions({ width: containerRef.current.clientWidth })
updateDimensions(width) == dimensions' = width

\* filteredData.map(n => (n / max) * 0.9)
scaled(peaks) ==
  [k \in 1..Len(peaks) |->
     IF peaks[k].nan THEN NaN ELSE Quotient(9 * peaks[k].num, 10 * peaks[k].den)]

\* the drawing effect: Math.min(500, width) blocks, normalised, at 90 %
normalizedData(audioBuffer, width) ==
  scaled(normalize(downsample(getChannelData(audioBuffer), Min(MaxPeaks, width))))

\* the buffer the display is given: selectedPad?.audioBuffer
displayedBuffer == pads[selectedPadId].audioBuffer

\* normalizedData for every buffer and width of the model
drawn == [f \in Buffers |-> [width \in Widths |-> normalizedData(f, width)]]

\* the peaks the display has extracted from the buffer it shows
displayedPeaks ==
  IF displayedBuffer = 0 THEN <<>> ELSE drawn[displayedBuffer][dimensions]

Web_Resize(width) ==
  /\ updateDimensions(width)
  /\ UNCHANGED <<pads, selectedPadId, playVars, sources, currentSourceRef, now>>
  /\ WebRest

ResizeStep == \E width \in Widths : Web_Resize(width)

DrawDropStep == \E padId \in PadInputs, f \in Buffers : Web_PadDrop(padId, f)

DrawNext ==
  \/ WebPadClickStep
  \/ DrawDropStep
  \/ ResizeStep
  \/ WebEndedStep
  \/ Web_AnimationFrame

SpecDraw == InitWeb /\ [][DrawNext]_vars

\* C25: peak extraction is deterministic: as long as the display shows the
\* same sample, the peaks extracted from it are the same sequence, whatever
\* else changes (the display width, the selected pad).
C25_PeaksDeterministic ==
  [][ (displayedBuffer # 0 /\ displayedBuffer' = displayedBuffer)
        => displayedPeaks' = displayedPeaks ]_vars

(***************************************************************************)
(* The mix of the Web Audio application: every playPad connects a new gain *)
(* node to the destination, which sums its inputs.                         *)
(***************************************************************************)
\* the sources whose gain nodes feed the destination
connected == {s \in SourceIds : Live(s)}

\* the largest frame the destination is handed when every live source plays
\* a full-scale frame at gain 1.0, in units of 1 / GainOne: nothing stands
\* between the gain nodes and the destination
mixedOutput == Cardinality(connected) * GainOne

\* C26: the mixed output stays within [-1, 1] however many voices are live,
\* each at gain 1.0.
C26_MixWithinRange == mixedOutput <= GainOne

(***************************************************************************)
(* SpecRace: drops of two files while earlier loads are unanswered, the    *)
(* engine answering in any order.                                          *)
(***************************************************************************)
RaceDropStep == DropStepOf({1, 2})

RaceNext ==
  \/ PadClickStep
  \/ RaceDropStep
  \/ WaveformReadyStep

SpecRace == Init /\ [][RaceNext]_vars

\* C27: once every load has been answered, the peaks and the duration of a
\* pad are those of the file its filePath names, the last file dropped on it.
C27_LastDropWins ==
  loads = <<>> =>
    \A p \in Pads :
      pads[p].filePath # <<>> =>
        /\ pads[p].waveformPeaks = FilePeaks(FileAt(pads[p].filePath))
        /\ pads[p].duration = FileDuration(FileAt(pads[p].filePath))

\* an ended callback of a source that a retrigger has stopped
StaleEnded(s) == sources[s].state = "stopped" /\ Web_Ended(s)

\* C28: the playing indicator is consistent with the live voice: isPlaying
\* holds while the source of the latest trigger is live, and the ended
\* callback of a source stopped by a retrigger neither sets isPlaying to
\* false, nor resets the progress, nor clears the reference to the newer
\* source.
C28_IndicatorFollowsVoice ==
  /\ []((currentSourceRef # 0 /\ Live(currentSourceRef)) => isPlaying)
  /\ [][ \A s \in SourceIds :
           StaleEnded(s) =>
             /\ isPlaying' = isPlaying
             /\ playProgress' = playProgress
             /\ currentSourceRef' = currentSourceRef ]_vars

\* the isPlaying prop of the WaveformDisplay, which shows the playhead:
\* isPlaying && selectedPad?.filePath !== undefined
playheadShown == isPlaying /\ pads[selectedPadId].filePath # <<>>

\* C29: progress is attributed to the pad that is playing: when nothing is
\* playing and a key triggers pad P while another pad is selected, the
\* playhead is not shown on the selected pad's waveform.
C29_ProgressOnPlayingPad ==
  [][ \A key \in Keys, padId \in Pads :
        (~isPlaying /\ padId # selectedPadId /\ KeyPress(key) /\ PlaySent(padId))
          => ~playheadShown' ]_vars

\* C30: in every reachable state exactly one pad has isActive = true, and it
\* is the pad whose id is selectedPadId, whatever selections, toggles, drops,
\* buffer loads, WaveformReady events and trim changes came before.
C30_OneActivePad ==
  /\ Cardinality({i \in Pads : pads[i].isActive}) = 1
  /\ \A i \in Pads : pads[i].isActive <=> pads[i].id = selectedPadId

\* the selection has moved from pad 1 to pad 2 and back to pad 1, with a
\* load answered and a mute toggled in between
C30_Witness ==
  /\ selectedPadId = 0
  /\ pads[0].isActive /\ ~pads[1].isActive
  /\ pads[1].audioBuffer # 0 /\ pads[1].isMuted
  /\ pads[1].filePath # <<>> /\ pads[1].waveformPeaks = FilePeaks(1)
====
